---- MODULE Spec2Model ----
(***************************************************************************)
(* Transit alert management system: the subscription lifecycle driven by   *)
(* lambda_handler (server/application/lambda_handler.py) over              *)
(* TransitAlertSystem (server/application/transit_alert_service.py) and    *)
(* TransportDataService (server/deployment/lambda_build/                   *)
(* transport_data_stream.py).                                              *)
(*                                                                         *)
(* The DynamoDB table is a set of items keyed by (user_id, bus_route); the *)
(* SNS topic is a set of bindings keyed by their ARN.  Every call to a     *)
(* collaborator (DynamoDB, SNS) may answer or raise; which calls raise is   *)
(* an input of the command (a set of fault sites).  Commands arrive with   *)
(* their bearer token already decoded to a user_id; the way from the event *)
(* to the command (decode_jwt, the tests on method and path) is modelled   *)
(* on its own.                                                             *)
(*                                                                         *)
(* The repository holds earlier generations of the handler and of the two  *)
(* services (server/application/handlers, services, data_services and      *)
(* server/deployment/*.py).  The commands are modelled from the generation *)
(* whose update_user_email fans out over the subscriptions of the user;    *)
(* the two upstream fetches are modelled from that generation and from the *)
(* copy of the service in server/deployment/transit_alert_service.py, and  *)
(* check_vehicle_delay from the first generation (server/application/      *)
(* services) as well.  The first generation's handler is not modelled: it  *)
(* builds its TransportDataService without the event, whose constructor    *)
(* then raises, so it answers 500 whatever the request.                    *)
(*                                                                         *)
(* SNS is modelled as issuing a fresh ARN, in state PendingConfirmation,   *)
(* at every subscribe.                                                     *)
(***************************************************************************)
EXTENDS Integers, Sequences, FiniteSets, TLC

(***************************************************************************)
(* Bounds of the model.                                                    *)
(***************************************************************************)
NumRoutes == 3          \* bus routes 1..NumRoutes
NumStops == 2           \* stops 1..NumStops
MaxArn == 4             \* SNS issues the subscription ARNs 1..MaxArn
MaxSteps == 3           \* commands in one behaviour
MaxFaults == 1          \* collaborator calls that raise during one command
NumWorkers == 2         \* concurrent invocations
MaxInvocations == 3     \* invocations handled by one process
FrameSteps == 4         \* commands in a run of the frame specification
LifecycleSteps == 5     \* commands of the subscription lifecycle scenario
MaxTime == 125          \* arrival times and clocks 0..MaxTime, in seconds
max_subscriptions == 2  \* MAX_SUBSCRIPTIONS of the deployment

Users == {"u1"}
Routes == 1..NumRoutes
Stops == 1..NumStops
ValidEmails == {"a@b.com", "c@d.com"}

(* Absent values: a key missing from a request or from an item. *)
Missing == 0
NoArn == 0
NoUser == "none"
NoEmail == "none"
NoStatus == "none"
EmailMarker == -1       \* the bus_route value "email"

VARIABLES
    table,      \* the DynamoDB table: a set of items
    sns,        \* the bindings of the SNS topic
    nextArn,    \* the next ARN SNS issues
    last,       \* the observed command: its inputs, its response, its calls
    table0,     \* the table before the observed command
    sns0,       \* the topic before the observed command
    steps,      \* the number of commands so far
    fetch,      \* the upstream fetch in progress: its position and its counts
    invocation, \* the invocation of lambda_handler in progress, and the key cache
    workers     \* the concurrent invocations: the position of each in its command

vars == <<table, sns, nextArn, last, table0, sns0, steps, fetch, invocation, workers>>

(***************************************************************************)
(* Input validation.                                                       *)
(***************************************************************************)
EmailChars(email) ==
    CASE email = "a@b.com" -> <<"a", "@", "b", ".", "c", "o", "m">>
      [] email = "c@d.com" -> <<"c", "@", "d", ".", "c", "o", "m">>
      [] email = "ab.com" -> <<"a", "b", ".", "c", "o", "m">>
      [] OTHER -> <<>>

(* re.match(r"[^@]+@[^@]+\.[^@]+", email): a match of a prefix. *)
MatchesEmailPattern(cs) ==
    \E i \in 1..Len(cs), j \in 1..Len(cs) :
        /\ i >= 2 /\ cs[i] = "@"
        /\ \A k \in 1..(i - 1) : cs[k] # "@"
        /\ j >= i + 2 /\ cs[j] = "."
        /\ \A k \in (i + 1)..(j - 1) : cs[k] # "@"
        /\ j + 1 <= Len(cs) /\ cs[j + 1] # "@"

validate_user_route(user_id, route, stop_id) ==
    IF user_id = NoUser THEN "user_id is required and must be a string"
    ELSE IF route = Missing THEN "route is required and must be a string"
    ELSE IF stop_id = Missing THEN "stop_id is required and must be a string or integer"
    ELSE "ok"

validate_email(email) ==
    IF email = NoEmail THEN "email is required and must be a string"
    ELSE IF ~MatchesEmailPattern(EmailChars(email)) THEN "email is not valid"
    ELSE "ok"

is_valid_email(email) ==
    email # NoEmail /\ MatchesEmailPattern(EmailChars(email))

(***************************************************************************)
(* The DynamoDB table.                                                     *)
(***************************************************************************)
Item(user_id, bus_route, stop_id, email, subscription_arn, email_status) ==
    [user_id |-> user_id, bus_route |-> bus_route, stop_id |-> stop_id,
     email |-> email, subscription_arn |-> subscription_arn,
     email_status |-> email_status]

(* A table whose sort key held the stop as well (bus_route#stop_id). *)
KeyOfWithStop(item) == <<item.user_id, item.bus_route, item.stop_id>>

(* The key schema of the table: partition key user_id, sort key bus_route. *)
KeyOf(item) == <<item.user_id, item.bus_route>>

query(t, user_id) == {i \in t : i.user_id = user_id}

put_item(t, item) == {i \in t : KeyOf(i) # KeyOf(item)} \cup {item}

delete_item(t, user_id, bus_route) ==
    {i \in t : ~(i.user_id = user_id /\ i.bus_route = bus_route)}

(* get_user_subscriptions: the query's items but the "email" marker; an    *)
(* exception of the query is caught and answered by the empty list.        *)
get_user_subscriptions(t, user_id, ok) ==
    IF ~ok THEN {}
    ELSE {i \in query(t, user_id) : i.bus_route # EmailMarker}

get_user_subscription_arn(t, user_id, bus_route, ok) ==
    IF ~ok THEN NoArn
    ELSE LET found == {i \in query(t, user_id) :
                          i.bus_route = bus_route /\ i.subscription_arn # NoArn}
         IN  IF found = {} THEN NoArn
             ELSE (CHOOSE i \in found : TRUE).subscription_arn

(* save_subscription_record: put_item of the whole record; an exception is *)
(* logged and swallowed.                                                   *)
save_subscription_record(t, user_id, bus_route, stop_id, email, arn, status, ok) ==
    IF ok THEN put_item(t, Item(user_id, bus_route, stop_id, email, arn, status))
    ELSE t

(* log_prediction: update_item SET stop_id, <prediction attributes> on the *)
(* key (user_id, bus_route).  update_item creates the item when the key is *)
(* absent.  The prediction attributes (minutes_away, stops_away,           *)
(* miles_away, arrival_time, timestamp) decide nothing and are left out.   *)
log_prediction(t, user_id, bus_route, stop_id, ok) ==
    IF ~ok THEN t
    ELSE LET old == {i \in t : i.user_id = user_id /\ i.bus_route = bus_route}
             new == IF old = {}
                    THEN {Item(user_id, bus_route, stop_id, NoEmail, NoArn, NoStatus)}
                    ELSE {[i EXCEPT !.stop_id = stop_id] : i \in old}
         IN  (t \ old) \cup new

(* A delete that takes the route for the whole key. *)
delete_subscription_record_of_route(t, user_id, route) ==
    {i \in t : i.bus_route # route}

delete_subscription_record(t, user_id, route) == delete_item(t, user_id, route)

(***************************************************************************)
(* The SNS topic.                                                          *)
(***************************************************************************)
Binding(arn, endpoint, status) ==
    [arn |-> arn, endpoint |-> endpoint, status |-> status]

sns_subscribe(s, arn, endpoint) ==
    s \cup {Binding(arn, endpoint, "PendingConfirmation")}

sns_unsubscribe(s, arn) == {b \in s : b.arn # arn}

Lower(str) ==
    CASE str = "Confirmed" -> "confirmed"
      [] str = "PendingConfirmation" -> "pendingconfirmation"
      [] OTHER -> str

(* get_subscription_attributes(...)["Attributes"]["SubscriptionStatus"];   *)
(* "error" stands for the exception of an unknown ARN or a failed call.    *)
get_subscription_attributes(s, arn, ok) ==
    LET found == {b \in s : b.arn = arn}
    IN  IF ~ok \/ found = {} THEN "error"
        ELSE (CHOOSE b \in found : TRUE).status

(* update_item SET email, email_status[, subscription_arn] on the key      *)
(* (user_id, bus_route); update_item creates the item when the key is      *)
(* absent.                                                                 *)
update_item_email(t, user_id, bus_route, new_email, new_arn) ==
    LET old == {i \in t : i.user_id = user_id /\ i.bus_route = bus_route}
        base == IF old = {}
                THEN {Item(user_id, bus_route, Missing, NoEmail, NoArn, NoStatus)}
                ELSE old
    IN  (t \ old) \cup
        {[i EXCEPT !.email = new_email,
                   !.email_status = "pending_confirmation",
                   !.subscription_arn = IF new_arn # NoArn THEN new_arn ELSE @]
            : i \in base}

(***************************************************************************)
(* Faults: the collaborator calls that raise during one command.  A fault  *)
(* site is <<call, k>>, k the bus_route (or the ARN) the call is made for, *)
(* 0 where the command makes the call once.                                *)
(***************************************************************************)
RECURSIVE FaultSets(_, _)
FaultSets(sites, k) ==
    IF k = 0 THEN {{}}
    ELSE LET smaller == FaultSets(sites, k - 1)
         IN  smaller \cup {F \cup {x} : F \in smaller, x \in sites}

Ok(F, call, k) == <<call, k>> \notin F

(***************************************************************************)
(* What the observed command leaves in `last`.                             *)
(*   failures: the collaborator calls of the command that raised.          *)
(*   status: SubscriptionStatus as get_subscription_attributes reported it *)
(*   subscribes: the number of sns.subscribe calls of the command.         *)
(*   published: the subjects of the notifications the command published.   *)
(*   repeat: the command is a Subscribe that repeats, argument for         *)
(*           argument, the command before it, which answered 200.          *)
(*   unbind_failed, rebound, rewritten: UpdateEmail's fan-out, by          *)
(*           bus_route: the items whose old ARN it failed to unsubscribe,  *)
(*           the items it asked a new binding for, the items it asked the  *)
(*           table to update.                                              *)
(*   subscriptions: what GetStatus returned.                               *)
(*   notifications: the number of delay alerts CheckDelay published.       *)
(*   cancelled, active: the two lists of GetCancelledRoutes.               *)
(***************************************************************************)
NoCommand ==
    [op |-> "none", user_id |-> NoUser, route |-> Missing, stop_id |-> Missing,
     email |-> NoEmail, statusCode |-> 0, failures |-> {}, status |-> "none",
     subscribes |-> 0, published |-> {}, repeat |-> FALSE,
     unbind_failed |-> {}, rebound |-> {}, rewritten |-> {},
     subscriptions |-> {}, notifications |-> 0, cancelled |-> {}, active |-> {}]

Command(op, user_id, route, stop_id, email) ==
    [NoCommand EXCEPT !.op = op, !.user_id = user_id, !.route = route,
                      !.stop_id = stop_id, !.email = email]

(***************************************************************************)
(* TransitAlertSystem.                                                     *)
(***************************************************************************)
check_subscription_limit(t, user_id, ok) ==
    Cardinality(get_user_subscriptions(t, user_id, ok)) < max_subscriptions

(* A status that took the ARN sns.subscribe returned for a confirmation. *)
email_status_confirmed(arn) == IF arn # NoArn THEN "confirmed" ELSE "pending"

(* `"pending" if arn and arn != "pending confirmation" else "pending"` *)
email_status(arn) == IF arn # NoArn THEN "pending" ELSE "pending"

(* A subscribe_user_to_sns without the short-circuit on a confirmed binding. *)
is_confirmed_never(status) == FALSE

(* `attributes.get("SubscriptionStatus", "").lower() == "confirmed"` *)
is_confirmed(status) == Lower(status) = "confirmed"

(* send_notification: sns.publish; an exception is logged and swallowed. *)
send_notification(subject) == {subject}

(* subscribe_user_to_sns(email, user_id, bus_route, stop_id) on table t,   *)
(* topic s, with n the ARN SNS issues next and F the calls that raise.     *)
subscribe_user_to_sns(t, s, n, email, user_id, bus_route, stop_id, F) ==
    LET unchanged == [result |-> FALSE, table |-> t, sns |-> s, nextArn |-> n,
                      failures |-> {}, status |-> "none", subscribes |-> 0,
                      published |-> {}]
        existing_arn == get_user_subscription_arn(t, user_id, bus_route,
                                                  Ok(F, "arn_query", 0))
        q == F \cap {<<"arn_query", 0>>}
        status == IF existing_arn = NoArn THEN "none"
                  ELSE get_subscription_attributes(s, existing_arn,
                                                   Ok(F, "attributes", 0))
        arn == n
        new_status == email_status(arn)
    IN  IF ~is_valid_email(email) THEN unchanged
        ELSE IF status = "error"
        THEN [unchanged EXCEPT !.failures = q \cup {<<"attributes", 0>>},
                               !.status = status]
        ELSE IF existing_arn # NoArn /\ is_confirmed(status)
        THEN [unchanged EXCEPT !.result = TRUE, !.failures = q, !.status = status]
        ELSE IF ~Ok(F, "subscribe", 0)
        THEN [unchanged EXCEPT !.failures = q \cup {<<"subscribe", 0>>},
                               !.status = status, !.subscribes = 1]
        ELSE [result |-> TRUE,
              table |-> save_subscription_record(t, user_id, bus_route, stop_id,
                                                 email, arn, new_status,
                                                 Ok(F, "put_item", 0)),
              sns |-> sns_subscribe(s, arn, email),
              nextArn |-> n + 1,
              failures |-> q \cup (F \cap {<<"put_item", 0>>}),
              status |-> status,
              subscribes |-> 1,
              published |-> IF new_status = "confirmed"
                            THEN send_notification("Subscription Confirmed")
                            ELSE {}]

(***************************************************************************)
(* TransportDataService.update_user_email: the fan-out over the items of   *)
(* the user, in the order the query returns them (by sort key).            *)
(***************************************************************************)
first_item(items) ==
    CHOOSE i \in items : \A j \in items :
        \/ i.bus_route < j.bus_route
        \/ i.bus_route = j.bus_route /\ i.stop_id <= j.stop_id

(* A loop without the inner try/except around sns.unsubscribe. *)
old_unsubscribe_raises_uncaught(ok) == ~ok

(* Does the exception of unsubscribing the old ARN leave the loop?  The    *)
(* inner try/except catches it.                                            *)
old_unsubscribe_raises(ok) == FALSE

RECURSIVE update_each(_, _, _, _, _)
update_each(items, st, user_id, new_email, F) ==
    IF items = {} THEN [st EXCEPT !.result = TRUE]
    ELSE
    LET item == first_item(items)
        r == item.bus_route
        old_arn == item.subscription_arn
        unsub_ok == Ok(F, "unsubscribe", r)
        sub_ok == Ok(F, "subscribe", r)
        upd_ok == Ok(F, "update_item", r)
        s1 == IF old_arn # NoArn /\ unsub_ok
              THEN sns_unsubscribe(st.sns, old_arn) ELSE st.sns
        st1 == [st EXCEPT !.sns = s1,
                          !.failures = IF old_arn # NoArn /\ ~unsub_ok
                                       THEN @ \cup {<<"unsubscribe", r>>} ELSE @,
                          !.unbind_failed = IF old_arn # NoArn /\ ~unsub_ok
                                            THEN @ \cup {r} ELSE @]
        new_arn == IF sub_ok THEN st.nextArn ELSE NoArn
        st2 == [st1 EXCEPT !.sns = IF sub_ok THEN sns_subscribe(s1, new_arn, new_email)
                                   ELSE @,
                           !.nextArn = IF sub_ok THEN @ + 1 ELSE @,
                           !.failures = IF sub_ok THEN @ ELSE @ \cup {<<"subscribe", r>>},
                           !.rebound = @ \cup {r}]
        st3 == [st2 EXCEPT !.table = IF upd_ok
                                     THEN update_item_email(@, user_id, r, new_email, new_arn)
                                     ELSE @,
                           !.failures = IF upd_ok THEN @ ELSE @ \cup {<<"update_item", r>>},
                           !.rewritten = @ \cup {r}]
    IN  IF old_arn # NoArn /\ old_unsubscribe_raises(unsub_ok) THEN st1
        ELSE IF ~upd_ok THEN st3
        ELSE update_each(items \ {item}, st3, user_id, new_email, F)

update_user_email(t, s, n, user_id, new_email, F) ==
    LET st == [result |-> FALSE, table |-> t, sns |-> s, nextArn |-> n,
               failures |-> {}, unbind_failed |-> {}, rebound |-> {},
               rewritten |-> {}, published |-> {}]
    IN  IF ~Ok(F, "query", 0) THEN [st EXCEPT !.failures = {<<"query", 0>>}]
        ELSE update_each(query(t, user_id), st, user_id, new_email, F)

(* update_subscription_email: the confirmation is published on success. *)
update_subscription_email(t, s, n, user_id, new_email, F) ==
    LET r == update_user_email(t, s, n, user_id, new_email, F)
    IN  IF r.result
        THEN [r EXCEPT !.published = send_notification("Email Update Confirmation")]
        ELSE r

(* unsubscribe_email_from_sns(email): walks the bindings of the topic in   *)
(* the order list_subscriptions_by_topic returned them.  A binding still   *)
(* pending is listed with the ARN "PendingConfirmation".                   *)
RECURSIVE unsubscribe_each(_, _, _, _)
unsubscribe_each(order, s, found, F) ==
    IF order = <<>> THEN [result |-> found, sns |-> s, failures |-> {}]
    ELSE LET b == Head(order)
         IN  IF b.status = "PendingConfirmation"
             THEN [result |-> FALSE, sns |-> s, failures |-> {}]
             ELSE IF ~Ok(F, "unsubscribe", b.arn)
             THEN [result |-> FALSE, sns |-> s,
                   failures |-> {<<"unsubscribe", b.arn>>}]
             ELSE unsubscribe_each(Tail(order), sns_unsubscribe(s, b.arn), TRUE, F)

unsubscribe_email_from_sns(s, email, order, F) ==
    IF ~Ok(F, "list", 0)
    THEN [result |-> FALSE, sns |-> s, failures |-> {<<"list", 0>>}]
    ELSE unsubscribe_each(order, s, FALSE, F)

(* delete_dynamodb_only_subscription: True unless delete_item raised. *)
delete_dynamodb_only_subscription(t, user_id, route, F) ==
    IF Ok(F, "delete_item", 0)
    THEN [result |-> TRUE, table |-> delete_subscription_record(t, user_id, route),
          failures |-> {}]
    ELSE [result |-> FALSE, table |-> t, failures |-> {<<"delete_item", 0>>}]

(***************************************************************************)
(* lambda_handler: one action per command.  `last`, table0 and sns0 are    *)
(* history variables: a behaviour observes one command (and, of a          *)
(* Subscribe that answered 200, its immediate repetition); the commands    *)
(* before it leave them empty.                                             *)
(***************************************************************************)
Repeats(cmd) ==
    /\ cmd.op = "Subscribe" /\ last.op = "Subscribe"
    /\ last.statusCode = 200 /\ ~last.repeat
    /\ cmd.user_id = last.user_id /\ cmd.route = last.route
    /\ cmd.stop_id = last.stop_id /\ cmd.email = last.email

Respond(cmd, t, s, n) ==
    /\ n <= MaxArn + 1
    /\ steps < MaxSteps
    /\ steps' = steps + 1
    /\ table' = t
    /\ sns' = s
    /\ nextArn' = n
    /\ \/ /\ last = NoCommand \/ Repeats(cmd)
          /\ last' = [cmd EXCEPT !.repeat = Repeats(cmd)]
          /\ table0' = table
          /\ sns0' = sns
       \/ /\ last = NoCommand
          /\ UNCHANGED <<last, table0, sns0>>

SubscribeEmails == {"a@b.com"}

SubscribeBodies ==
    [route : Routes, stop_id : Stops, email : SubscribeEmails]
    \cup {[route |-> Missing, stop_id |-> 1, email |-> "a@b.com"],
          [route |-> 1, stop_id |-> Missing, email |-> "a@b.com"],
          [route |-> 1, stop_id |-> 1, email |-> NoEmail],
          [route |-> 1, stop_id |-> 1, email |-> "ab.com"]}

SubscribeSites ==
    {<<"limit_query", 0>>, <<"arn_query", 0>>, <<"attributes", 0>>,
     <<"subscribe", 0>>, <<"put_item", 0>>}

SubscribeFaults == FaultSets(SubscribeSites, MaxFaults)

(* A POST /subscribe that consults the subscription limit before it        *)
(* validates the email.                                                    *)
Subscribe_limit_first(user_id, body, F) ==
    LET cmd == Command("Subscribe", user_id, body.route, body.stop_id, body.email)
        r == subscribe_user_to_sns(table, sns, nextArn, body.email, user_id,
                                   body.route, body.stop_id, F)
        lq == F \cap {<<"limit_query", 0>>}
    IN  IF validate_user_route(user_id, body.route, body.stop_id) # "ok"
        THEN Respond([cmd EXCEPT !.statusCode = 400], table, sns, nextArn)
        ELSE IF ~check_subscription_limit(table, user_id, Ok(F, "limit_query", 0))
        THEN Respond([cmd EXCEPT !.statusCode = 403, !.failures = lq],
                     table, sns, nextArn)
        ELSE IF validate_email(body.email) # "ok"
        THEN Respond([cmd EXCEPT !.statusCode = 400, !.failures = lq],
                     table, sns, nextArn)
        ELSE Respond([cmd EXCEPT !.statusCode = IF r.result THEN 200 ELSE 500,
                                 !.failures = lq \cup r.failures,
                                 !.status = r.status,
                                 !.subscribes = r.subscribes,
                                 !.published = r.published],
                     r.table, r.sns, r.nextArn)

(* POST /subscribe *)
Subscribe(user_id, body, F) ==
    LET cmd == Command("Subscribe", user_id, body.route, body.stop_id, body.email)
        r == subscribe_user_to_sns(table, sns, nextArn, body.email, user_id,
                                   body.route, body.stop_id, F)
        lq == F \cap {<<"limit_query", 0>>}
    IN  IF validate_user_route(user_id, body.route, body.stop_id) # "ok"
        THEN Respond([cmd EXCEPT !.statusCode = 400], table, sns, nextArn)
        ELSE IF validate_email(body.email) # "ok"
        THEN Respond([cmd EXCEPT !.statusCode = 400], table, sns, nextArn)
        ELSE IF ~check_subscription_limit(table, user_id, Ok(F, "limit_query", 0))
        THEN Respond([cmd EXCEPT !.statusCode = 403, !.failures = lq],
                     table, sns, nextArn)
        ELSE Respond([cmd EXCEPT !.statusCode = IF r.result THEN 200 ELSE 500,
                                 !.failures = lq \cup r.failures,
                                 !.status = r.status,
                                 !.subscribes = r.subscribes,
                                 !.published = r.published],
                     r.table, r.sns, r.nextArn)

(* GET /status *)
GetStatus(user_id, F) ==
    LET ok == Ok(F, "query", 0)
    IN  Respond([Command("GetStatus", user_id, Missing, Missing, NoEmail)
                    EXCEPT !.statusCode = 200,
                           !.failures = F \cap {<<"query", 0>>},
                           !.subscriptions = get_user_subscriptions(table, user_id, ok)],
                table, sns, nextArn)

(* GET /delay.  check_vehicle_delay publishes one alert for every vehicle  *)
(* whose expected arrival is more than delay_threshold_minutes away; the   *)
(* response is 200 whatever it did.                                        *)
delay_threshold_minutes == 4

Vehicle(expected, minutes) == [expected |-> expected, minutes |-> minutes]

VehicleResponses ==
    {"exception", "no_deliveries"}

VehicleLists ==
    {<<>>, <<Vehicle(TRUE, 12)>>, <<Vehicle(TRUE, 4)>>, <<Vehicle(FALSE, 0)>>,
     <<Vehicle(TRUE, 5), Vehicle(TRUE, 3)>>}

RECURSIVE delay_alerts(_)
delay_alerts(vehicles) ==
    IF vehicles = <<>> THEN 0
    ELSE LET v == Head(vehicles)
         IN  (IF v.expected /\ v.minutes > delay_threshold_minutes THEN 1 ELSE 0)
             + delay_alerts(Tail(vehicles))

check_vehicle_delay(upstream) ==
    IF upstream \in VehicleResponses THEN 0 ELSE delay_alerts(upstream)

CheckDelay(route, upstream) ==
    LET cmd == Command("CheckDelay", NoUser, route, Missing, NoEmail)
    IN  IF route = Missing
        THEN Respond([cmd EXCEPT !.statusCode = 400], table, sns, nextArn)
        ELSE Respond([cmd EXCEPT !.statusCode = 200,
                                 !.notifications = check_vehicle_delay(upstream)],
                     table, sns, nextArn)

(* GET /prediction.  `prediction` is what get_prediction returned: a       *)
(* prediction, a {"message": ...} sentinel, or None.  `prediction.get` on  *)
(* None raises, and the handler's outer except answers 500.                *)
Predictions == {"prediction", "message", "None"}

GetPrediction(user_id, route, stop_id, prediction, F) ==
    LET cmd == Command("GetPrediction", user_id, route, stop_id, NoEmail)
    IN  IF validate_user_route(user_id, route, stop_id) # "ok"
        THEN Respond([cmd EXCEPT !.statusCode = 400], table, sns, nextArn)
        ELSE IF prediction = "None"
        THEN Respond([cmd EXCEPT !.statusCode = 500], table, sns, nextArn)
        ELSE IF prediction = "message"
        THEN Respond([cmd EXCEPT !.statusCode = 404], table, sns, nextArn)
        ELSE Respond([cmd EXCEPT !.statusCode = 200,
                                 !.failures = F \cap {<<"update_item", 0>>}],
                     log_prediction(table, user_id, route, stop_id,
                                    Ok(F, "update_item", 0)),
                     sns, nextArn)

(* GET /cancelled.  get_all_unique_routes scans the table (an exception is *)
(* answered by the empty list); check_if_route_cancelled asks the vehicle  *)
(* monitoring API for each route.                                          *)
get_all_unique_routes(t, ok) == IF ok THEN {i.bus_route : i \in t} ELSE {}

RouteOutcomes == {"active", "empty", "exception"}

check_if_route_cancelled_unless_active(outcome) == outcome # "active"

check_if_route_cancelled(outcome) == outcome = "empty"

GetCancelledRoutes(upstream, F) ==
    LET routes_to_check == get_all_unique_routes(table, Ok(F, "scan", 0))
        cancelled == {r \in routes_to_check : check_if_route_cancelled(upstream[r])}
    IN  Respond([Command("GetCancelledRoutes", NoUser, Missing, Missing, NoEmail)
                    EXCEPT !.statusCode = 200,
                           !.failures = F \cap {<<"scan", 0>>},
                           !.cancelled = cancelled,
                           !.active = routes_to_check \ cancelled],
                table, sns, nextArn)

(* PUT /email *)
EmailInputs == ValidEmails \cup {NoEmail, "ab.com"}

UpdateEmailSites ==
    {<<"query", 0>>}
    \cup ({"unsubscribe", "subscribe", "update_item"} \X Routes)

UpdateEmailFaults == FaultSets(UpdateEmailSites, MaxFaults)

UpdateEmail(user_id, new_email, F) ==
    LET cmd == Command("UpdateEmail", user_id, Missing, Missing, new_email)
        r == update_subscription_email(table, sns, nextArn, user_id, new_email, F)
    IN  IF validate_email(new_email) # "ok"
        THEN Respond([cmd EXCEPT !.statusCode = 400], table, sns, nextArn)
        ELSE Respond([cmd EXCEPT !.statusCode = IF r.result THEN 200 ELSE 500,
                                 !.failures = r.failures,
                                 !.published = r.published,
                                 !.unbind_failed = r.unbind_failed,
                                 !.rebound = r.rebound,
                                 !.rewritten = r.rewritten],
                     r.table, r.sns, r.nextArn)

(* DELETE /unsubscribe *)
RECURSIVE Orders(_)
Orders(S) ==
    IF S = {} THEN {<<>>}
    ELSE UNION {{<<x>> \o o : o \in Orders(S \ {x})} : x \in S}

UnsubscribeSites == {<<"list", 0>>} \cup ({"unsubscribe"} \X (1..MaxArn))

UnsubscribeFaults == FaultSets(UnsubscribeSites, MaxFaults)

Unsubscribe(email, order, F) ==
    LET cmd == Command("Unsubscribe", NoUser, Missing, Missing, email)
        r == unsubscribe_email_from_sns(sns, email, order, F)
    IN  IF email = NoEmail
        THEN Respond([cmd EXCEPT !.statusCode = 400], table, sns, nextArn)
        ELSE Respond([cmd EXCEPT !.statusCode = IF r.result THEN 200 ELSE 404,
                                 !.failures = r.failures],
                     table, r.sns, nextArn)

(* DELETE /subscription *)
DeleteSubscription(user_id, route, F) ==
    LET cmd == Command("DeleteSubscription", user_id, route, Missing, NoEmail)
        r == delete_dynamodb_only_subscription(table, user_id, route, F)
    IN  IF route = Missing
        THEN Respond([cmd EXCEPT !.statusCode = 400], table, sns, nextArn)
        ELSE Respond([cmd EXCEPT !.statusCode = IF r.result THEN 200 ELSE 404,
                                 !.failures = r.failures],
                     r.table, sns, nextArn)

(* The subscriber follows the confirmation link SNS mailed. *)
ConfirmSubscription(arn) ==
    /\ last = NoCommand
    /\ \E b \in sns : b.arn = arn /\ b.status = "PendingConfirmation"
    /\ sns' = {IF b.arn = arn THEN [b EXCEPT !.status = "Confirmed"] ELSE b : b \in sns}
    /\ steps < MaxSteps
    /\ steps' = steps + 1
    /\ UNCHANGED <<table, nextArn, last, table0, sns0>>

(* An ISO 8601 time string: a local time and its offset from UTC, in       *)
(* seconds.  fromisoformat gives the instant; astimezone keeps it.         *)
IsoTime(instant, utcoffset) == [local |-> instant + utcoffset, utcoffset |-> utcoffset]

(* What the upstream answers to one request, and the clock at that time.   *)
NoResponse ==
    [transport |-> "none", status |-> 0, body |-> "none",
     arrival |-> IsoTime(0, 0), now |-> 0, vehicles |-> <<>>,
     json_error |-> "none"]

(* No upstream fetch has been started. *)
NoFetch ==
    [fn |-> "none", variant |-> "none", pc |-> "idle",
     user_id |-> NoUser, route |-> Missing, stop_id |-> Missing,
     attempt |-> 0, requests |-> 0, sleeps |-> 0, waited |-> 0,
     upstream |-> NoResponse, exit |-> "none", result |-> "none",
     minutes_away |-> 0, notifications |-> 0, messages |-> <<>>]

(* No invocation of lambda_handler is in progress; LambdaFunctionService.  *)
(* jwks, the cache of the public keys, is None.                            *)
(* The concurrent invocations of the handler, each at a call of its        *)
(* command; none is running in a run of commands taken one at a time.      *)
Workers == 1..NumWorkers

NoWorker ==
    [op |-> "none", pc |-> "idle", user_id |-> NoUser, route |-> Missing,
     stop_id |-> Missing, email |-> NoEmail, arn |-> NoArn, items |-> {},
     statusCode |-> 0]

NoWorkers == [w \in Workers |-> NoWorker]

NoInvocation ==
    [pc |-> "idle", ENV |-> "none", method |-> "none", path |-> "none",
     credential |-> "none", jwks |-> "None", user_id |-> NoUser,
     command |-> "none", ran |-> FALSE, returned |-> "none", statusCode |-> 0,
     invocations |-> 1, fetches |-> 0, answer |-> "none"]

Init ==
    /\ table = {}
    /\ sns = {}
    /\ nextArn = 1
    /\ last = NoCommand
    /\ table0 = {}
    /\ sns0 = {}
    /\ steps = 0
    /\ fetch = NoFetch
    /\ invocation = NoInvocation
    /\ workers = NoWorkers

Next ==
    \/ \E user_id \in Users, body \in SubscribeBodies,
          F \in SubscribeFaults : Subscribe(user_id, body, F) /\ UNCHANGED <<fetch, invocation, workers>>
    \/ \E user_id \in Users, F \in FaultSets({<<"query", 0>>}, MaxFaults) :
          GetStatus(user_id, F) /\ UNCHANGED <<fetch, invocation, workers>>
    \/ \E route \in Routes \cup {Missing}, upstream \in VehicleResponses \cup VehicleLists :
          CheckDelay(route, upstream) /\ UNCHANGED <<fetch, invocation, workers>>
    \/ \E user_id \in Users, route \in Routes \cup {Missing}, stop_id \in Stops,
          prediction \in Predictions, F \in FaultSets({<<"update_item", 0>>}, MaxFaults) :
          GetPrediction(user_id, route, stop_id, prediction, F) /\ UNCHANGED <<fetch, invocation, workers>>
    \/ \E F \in FaultSets({<<"scan", 0>>}, MaxFaults) :
          \E upstream \in [get_all_unique_routes(table, Ok(F, "scan", 0)) -> RouteOutcomes] :
             GetCancelledRoutes(upstream, F) /\ UNCHANGED <<fetch, invocation, workers>>
    \/ \E user_id \in Users, new_email \in EmailInputs,
          F \in UpdateEmailFaults : UpdateEmail(user_id, new_email, F) /\ UNCHANGED <<fetch, invocation, workers>>
    \/ \E email \in ValidEmails \cup {NoEmail}, order \in Orders(sns),
          F \in UnsubscribeFaults : Unsubscribe(email, order, F) /\ UNCHANGED <<fetch, invocation, workers>>
    \/ \E user_id \in Users, route \in Routes \cup {Missing},
          F \in FaultSets({<<"delete_item", 0>>}, MaxFaults) :
          DeleteSubscription(user_id, route, F) /\ UNCHANGED <<fetch, invocation, workers>>
    \/ \E arn \in 1..MaxArn : ConfirmSubscription(arn) /\ UNCHANGED <<fetch, invocation, workers>>

Spec == Init /\ [][Next]_vars

(***************************************************************************)
(* The subscription lifecycle: POST /subscribe, PUT /email, the subscriber *)
(* confirming a binding, a DELETE /unsubscribe that answers 200, then      *)
(* GET /status, in that order and with no collaborator call raising.  The  *)
(* commands are the actions above; the scenario is LifecycleSteps long,    *)
(* so its count of commands starts that far below MaxSteps.                *)
(***************************************************************************)
LifecyclePhase == steps - (MaxSteps - LifecycleSteps)

LifecycleInit ==
    /\ table = {}
    /\ sns = {}
    /\ nextArn = 1
    /\ last = NoCommand
    /\ table0 = {}
    /\ sns0 = {}
    /\ steps = MaxSteps - LifecycleSteps
    /\ fetch = NoFetch
    /\ invocation = NoInvocation
    /\ workers = NoWorkers

LifecycleNext ==
    \/ /\ LifecyclePhase = 0
       /\ \E user_id \in Users, body \in SubscribeBodies : Subscribe(user_id, body, {}) /\ UNCHANGED <<fetch, invocation, workers>>
    \/ /\ LifecyclePhase = 1
       /\ \E user_id \in Users, new_email \in EmailInputs :
             UpdateEmail(user_id, new_email, {}) /\ UNCHANGED <<fetch, invocation, workers>>
    \/ /\ LifecyclePhase = 2
       /\ \E arn \in 1..MaxArn : ConfirmSubscription(arn) /\ UNCHANGED <<fetch, invocation, workers>>
    \/ /\ LifecyclePhase = 3
       /\ \E email \in ValidEmails, order \in Orders(sns) :
             /\ unsubscribe_email_from_sns(sns, email, order, {}).result
             /\ Unsubscribe(email, order, {})
             /\ UNCHANGED <<fetch, invocation, workers>>
    \/ /\ LifecyclePhase = 4
       /\ \E user_id \in Users : GetStatus(user_id, {}) /\ UNCHANGED <<fetch, invocation, workers>>

SpecLifecycle == LifecycleInit /\ [][LifecycleNext]_vars

(***************************************************************************)
(* The upstream fetches, one step at a time: get_prediction and            *)
(* check_vehicle_delay as the handler's service runs them (variant         *)
(* "application") and as the copy of the service under deployment/ runs    *)
(* them (variant "deployment").  A step is one requests.get with the       *)
(* parsing of its response, one time.sleep, or the exit of the retry loop. *)
(***************************************************************************)
max_retries == 3                \* MAX_RETRIES
retry_delay == 5                \* RETRY_DELAY, seconds
vehicle_delay_threshold == 5    \* VEHICLE_DELAY_THRESHOLD, minutes

Variants == {"application", "deployment"}

fromisoformat(s) == s.local - s.utcoffset

UtcOffsets == {0, -14400}

Instants == 0..MaxTime

FetchInstants == {0, MaxTime}

(* max(0, int(delta_seconds // 60)) *)
minutes_away(arrival_time, current_time) ==
    LET delta_seconds == arrival_time - current_time
        floored == delta_seconds \div 60
    IN  IF floored > 0 THEN floored ELSE 0

(* (arrival_time - current_time).seconds // 60: the seconds attribute of a *)
(* timedelta is the difference modulo one day.                             *)
deployment_minutes_away(arrival_time, current_time) ==
    ((arrival_time - current_time) % 86400) \div 60

Response(transport, status, body) ==
    [NoResponse EXCEPT !.transport = transport, !.status = status, !.body = body]

TransportFailures == {"timeout", "connection_error"}

(* The class response.json() raises for a body that is not JSON depends on *)
(* the installed requests: a RequestException, or a plain ValueError.      *)
JsonErrors == {"RequestException", "ValueError"}

NestingBodies ==
    {"no_siri", "no_service_delivery", "no_delivery_list", "empty_delivery_list"}

StopBodies ==
    NestingBodies \cup {"no_visits", "empty_visits", "no_journey", "no_arrival_time"}

VisitResponses(instants) ==
    {[Response("ok", 200, "visit") EXCEPT !.arrival = IsoTime(a, o), !.now = n] :
        a \in instants, o \in UtcOffsets, n \in instants}

FailedResponses ==
         {Response(t, 0, "none") : t \in TransportFailures}
    \cup {[Response("ok", s, "not_json") EXCEPT !.json_error = e] :
             s \in {200, 503}, e \in JsonErrors}
    \cup {Response("ok", 503, "no_siri")}

StopResponses ==
         FailedResponses
    \cup {Response("ok", 200, b) : b \in StopBodies}
    \cup VisitResponses(FetchInstants)

Activity(progress_status, delay) ==
    [MonitoredVehicleJourney |-> [ProgressStatus |-> progress_status, Delay |-> delay]]

ActivityLists ==
    {<<>>, <<Activity("delayed", 600)>>, <<Activity("Delayed", 300)>>,
     <<Activity("delayed", 240)>>, <<Activity("normalProgress", 900)>>,
     <<Activity("delayed", 720)>>,
     <<Activity("normalProgress", 0), Activity("delayed", 300)>>}

VehicleMonitoringResponses(variant) ==
         FailedResponses
    \cup {Response("ok", 200, b) : b \in NestingBodies \cup {"no_visits"}}
    \cup {[Response("ok", 200, "vehicles") EXCEPT !.vehicles = v] :
             v \in IF variant = "application" THEN VehicleLists ELSE ActivityLists}

(* The buses of the first generation's vehicles endpoint: `data` is a list *)
(* of buses, the delay of a bus is attributes.delay, in minutes.           *)
Bus(delay) == [attributes |-> [delay |-> delay]]

BusLists ==
    {<<>>, <<Bus(12)>>, <<Bus(5)>>, <<Bus(3), Bus(12)>>,
     <<[attributes |-> [k \in {} |-> 0]]>>, <<Bus(12), [k \in {} |-> 0]>>}

VehiclesResponses ==
         FailedResponses
    \cup {Response("ok", 200, "no_siri")}
    \cup {[Response("ok", 200, "buses") EXCEPT !.vehicles = v] : v \in BusLists}

(* What the request of check_if_route_cancelled can be answered: as for    *)
(* check_vehicle_delay, and with the activities in a second delivery.      *)
RouteResponses ==
         VehicleMonitoringResponses("application")
    \cup {[Response("ok", 200, "second_delivery") EXCEPT !.vehicles = v] :
             v \in VehicleLists}

Upstreams(fn, variant) ==
    IF fn = "get_prediction" THEN StopResponses
    ELSE IF fn = "check_if_route_cancelled" THEN RouteResponses
    ELSE IF variant = "services" THEN VehiclesResponses
    ELSE VehicleMonitoringResponses(variant)

(* The parsed JSON of a response body. *)
EmptyDict == [k \in {} |-> 0]

Get(d, k, default) == IF k \in DOMAIN d THEN d[k] ELSE default

Json(delivery_key, r) ==
    LET delivery(list) == [Siri |-> [ServiceDelivery |-> (delivery_key :> list)]]
        visit(v) == delivery(<<[MonitoredStopVisit |-> <<v>>]>>)
    IN  CASE r.body = "no_siri" -> EmptyDict
          [] r.body = "no_service_delivery" -> [Siri |-> EmptyDict]
          [] r.body = "no_delivery_list" -> [Siri |-> [ServiceDelivery |-> EmptyDict]]
          [] r.body = "empty_delivery_list" -> delivery(<<>>)
          [] r.body = "no_visits" -> delivery(<<EmptyDict>>)
          [] r.body = "empty_visits" -> delivery(<<[MonitoredStopVisit |-> <<>>]>>)
          [] r.body = "no_journey" -> visit(EmptyDict)
          [] r.body = "no_arrival_time" ->
                visit([MonitoredVehicleJourney |-> [MonitoredCall |-> EmptyDict]])
          [] r.body = "visit" ->
                visit([MonitoredVehicleJourney |->
                          [MonitoredCall |-> [ExpectedArrivalTime |-> r.arrival]]])
          [] r.body = "vehicles" -> delivery(<<[VehicleActivity |-> r.vehicles]>>)
          [] r.body = "second_delivery" ->
                delivery(<<[VehicleActivity |-> <<>>], [VehicleActivity |-> r.vehicles]>>)
          [] r.body = "buses" -> [data |-> r.vehicles]

(* requests.get, raise_for_status where the variant calls it, and          *)
(* response.json(): "ok", or the class of the exception raised.            *)
calls_raise_for_status(variant) == variant \in {"deployment", "services"}

http(variant, r) ==
    IF r.transport \in TransportFailures THEN "RequestException"
    ELSE IF calls_raise_for_status(variant) /\ r.status >= 400 THEN "RequestException"
    ELSE IF r.body = "not_json" THEN r.json_error
    ELSE "ok"

(* How a try body ends: "return" with a result, "RequestException" or      *)
(* "Exception" caught by the handler of that name, "raise" uncaught.       *)
Exit(exit, result) ==
    [exit |-> exit, result |-> result, minutes_away |-> 0, notifications |-> 0]

(* What a delay notification tells: its subject, and the route its text    *)
(* names.                                                                  *)
delay_message_without_route(variant, route) ==
    [subject |-> IF variant = "application" THEN "Transit Alert"
                 ELSE "Vehicle Delay Alert",
     route |-> Missing]

delay_message(variant, route) ==
    [subject |-> IF variant = "application" THEN "Transit Alert"
                 ELSE "Vehicle Delay Alert",
     route |-> route]

application_get_prediction(r) ==
    LET h == http("application", r)
        data == Json("StopMonitoringDelivery", r)
        stop_monitoring_delivery ==
            Get(Get(Get(data, "Siri", EmptyDict), "ServiceDelivery", EmptyDict),
                "StopMonitoringDelivery", <<>>)
        stop_data == IF Len(stop_monitoring_delivery) > 0
                     THEN Get(stop_monitoring_delivery[1], "MonitoredStopVisit", <<>>)
                     ELSE <<>>
        journey == Get(stop_data[1], "MonitoredVehicleJourney", EmptyDict)
        monitored_call == Get(journey, "MonitoredCall", EmptyDict)
    IN  IF h = "RequestException" THEN Exit("RequestException", "none")
        ELSE IF h # "ok" THEN Exit("Exception", "none")
        ELSE IF Len(stop_data) = 0 THEN Exit("return", "no_data")
        ELSE IF "ExpectedArrivalTime" \notin DOMAIN monitored_call
        THEN Exit("return", "no_arrival_time")
        ELSE [Exit("return", "prediction") EXCEPT
                 !.minutes_away =
                     minutes_away(fromisoformat(monitored_call.ExpectedArrivalTime),
                                  r.now)]

deployment_get_prediction(r) ==
    LET h == http("deployment", r)
        data == Json("StopMonitoringDelivery", r)
        deliveries ==
            Get(Get(Get(data, "Siri", EmptyDict), "ServiceDelivery", EmptyDict),
                "StopMonitoringDelivery", <<>>)
        stop_data == Get(deliveries[1], "MonitoredStopVisit", <<>>)
        journey == stop_data[1].MonitoredVehicleJourney
        monitored_call == Get(journey, "MonitoredCall", EmptyDict)
    IN  IF h = "RequestException" THEN Exit("RequestException", "none")
        ELSE IF h # "ok" THEN Exit("Exception", "none")
        ELSE IF Len(deliveries) = 0 THEN Exit("Exception", "none")
        ELSE IF Len(stop_data) = 0 THEN Exit("return", "None")
        ELSE IF "MonitoredVehicleJourney" \notin DOMAIN stop_data[1]
        THEN Exit("Exception", "none")
        ELSE IF "ExpectedArrivalTime" \notin DOMAIN monitored_call
        THEN Exit("return", "None")
        ELSE [Exit("return", "prediction") EXCEPT
                 !.minutes_away =
                     deployment_minutes_away(
                         fromisoformat(monitored_call.ExpectedArrivalTime), r.now)]

application_check_vehicle_delay(r) ==
    LET h == http("application", r)
        data == Json("VehicleMonitoringDelivery", r)
        deliveries ==
            Get(Get(Get(data, "Siri", EmptyDict), "ServiceDelivery", EmptyDict),
                "VehicleMonitoringDelivery", <<>>)
    IN  IF h # "ok" THEN Exit("Exception", "none")
        ELSE IF Len(deliveries) = 0 THEN Exit("return", "None")
        ELSE [Exit("return", "True") EXCEPT
                 !.notifications =
                     delay_alerts(Get(deliveries[1], "VehicleActivity", <<>>))]

contains_delayed(progress_status) == progress_status \in {"delayed", "Delayed"}

delayed_buses(vehicle_data) ==
    {n \in 1..Len(vehicle_data) :
        LET journey == Get(vehicle_data[n], "MonitoredVehicleJourney", EmptyDict)
        IN  /\ contains_delayed(Get(journey, "ProgressStatus", ""))
            /\ Get(journey, "Delay", 0) \div 60 >= vehicle_delay_threshold}

deployment_check_vehicle_delay(r) ==
    LET h == http("deployment", r)
        data == Json("VehicleMonitoringDelivery", r)
        deliveries ==
            Get(Get(Get(data, "Siri", EmptyDict), "ServiceDelivery", EmptyDict),
                "VehicleMonitoringDelivery", <<>>)
        vehicle_data == Get(deliveries[1], "VehicleActivity", <<>>)
    IN  IF h = "RequestException" THEN Exit("RequestException", "none")
        ELSE IF h # "ok" THEN Exit("raise", "none")
        ELSE IF Len(deliveries) = 0 THEN Exit("raise", "none")
        ELSE [Exit("return", "None") EXCEPT
                 !.notifications = IF delayed_buses(vehicle_data) # {} THEN 1 ELSE 0]

(* The first generation's check_vehicle_delay: one request, one            *)
(* notification with the average delay when a bus is over the threshold.   *)
services_check_vehicle_delay(r) ==
    LET h == http("services", r)
        bus_data == Get(Json("VehicleMonitoringDelivery", r), "data", <<>>)
        delayed == {n \in 1..Len(bus_data) :
                       Get(bus_data[n].attributes, "delay", 0) > vehicle_delay_threshold}
    IN  IF h # "ok" THEN Exit("Exception", "none")
        ELSE IF \E n \in 1..Len(bus_data) : "attributes" \notin DOMAIN bus_data[n]
        THEN Exit("Exception", "none")
        ELSE [Exit("return", "None") EXCEPT
                 !.notifications = IF delayed # {} THEN 1 ELSE 0]

(* A request of check_if_route_cancelled whose exception counts as an      *)
(* answer without activities.                                              *)
route_outcome_failure_is_empty(r) ==
    LET data == Json("VehicleMonitoringDelivery", r)
        deliveries ==
            Get(Get(Get(data, "Siri", EmptyDict), "ServiceDelivery", EmptyDict),
                "VehicleMonitoringDelivery", <<>>)
    IN  IF http("application", r) # "ok" THEN "empty"
        ELSE IF \E n \in 1..Len(deliveries) :
                   Len(Get(deliveries[n], "VehicleActivity", <<>>)) > 0
        THEN "active"
        ELSE "empty"

(* What the request of check_if_route_cancelled comes to: an exception, a  *)
(* delivery with a non-empty VehicleActivity, or none.                     *)
route_outcome(r) ==
    LET data == Json("VehicleMonitoringDelivery", r)
        deliveries ==
            Get(Get(Get(data, "Siri", EmptyDict), "ServiceDelivery", EmptyDict),
                "VehicleMonitoringDelivery", <<>>)
    IN  IF http("application", r) # "ok" THEN "exception"
        ELSE IF \E n \in 1..Len(deliveries) :
                   Len(Get(deliveries[n], "VehicleActivity", <<>>)) > 0
        THEN "active"
        ELSE "empty"

application_check_if_route_cancelled(r) ==
    Exit(IF route_outcome(r) = "exception" THEN "Exception" ELSE "return",
         IF check_if_route_cancelled(route_outcome(r)) THEN "True" ELSE "False")

try(fn, variant, r) ==
    CASE fn = "get_prediction" /\ variant = "application" -> application_get_prediction(r)
      [] fn = "get_prediction" /\ variant = "deployment" -> deployment_get_prediction(r)
      [] fn = "check_vehicle_delay" /\ variant = "application" ->
            application_check_vehicle_delay(r)
      [] fn = "check_vehicle_delay" /\ variant = "deployment" ->
            deployment_check_vehicle_delay(r)
      [] fn = "check_vehicle_delay" /\ variant = "services" ->
            services_check_vehicle_delay(r)
      [] fn = "check_if_route_cancelled" -> application_check_if_route_cancelled(r)

(* get_prediction and the deployment's check_vehicle_delay run `while      *)
(* attempt < self.max_retries`; the other fetches make their request       *)
(* outside any loop.                                                       *)
has_loop(fn, variant) ==
    \/ fn = "get_prediction"
    \/ fn = "check_vehicle_delay" /\ variant = "deployment"

loop_continues_once_more(attempt) == attempt <= max_retries

loop_continues(attempt) == attempt < max_retries

(* The deployment variant breaks out of the loop after the last failed     *)
(* attempt; the application sleeps first.                                  *)
breaks_after_last_attempt(variant) == variant = "deployment"

StartFetch(fn, variant, user_id, route, stop_id) ==
    /\ fetch.pc = "idle"
    /\ fetch' = [NoFetch EXCEPT !.fn = fn, !.variant = variant, !.pc = "loop",
                                !.user_id = user_id, !.route = route,
                                !.stop_id = stop_id]
    /\ UNCHANGED <<table, sns, nextArn, last, table0, sns0, steps, invocation, workers>>

Request(r) ==
    /\ fetch.pc = "loop"
    /\ has_loop(fetch.fn, fetch.variant) => loop_continues(fetch.attempt)
    /\ LET t == try(fetch.fn, fetch.variant, r)
           made == [fetch EXCEPT !.requests = @ + 1, !.upstream = r, !.exit = t.exit]
       IN  fetch' =
             CASE t.exit = "return" ->
                    [made EXCEPT !.pc = "returned", !.result = t.result,
                                 !.minutes_away = t.minutes_away,
                                 !.notifications = t.notifications,
                                 !.messages =
                                     [k \in 1..t.notifications |->
                                         delay_message(fetch.variant, fetch.route)]]
               [] t.exit = "raise" -> [made EXCEPT !.pc = "returned", !.result = "raised"]
               [] t.exit = "Exception" ->
                    [made EXCEPT !.pc = "returned",
                                 !.result = IF fetch.fn = "check_if_route_cancelled"
                                            THEN t.result ELSE "None"]
               [] t.exit = "RequestException" ->
                    IF /\ breaks_after_last_attempt(fetch.variant)
                       /\ fetch.attempt + 1 >= max_retries
                    THEN [made EXCEPT !.attempt = @ + 1, !.pc = "returned",
                                      !.result = "None"]
                    ELSE [made EXCEPT !.attempt = @ + 1, !.pc = "sleep"]
    /\ UNCHANGED <<table, sns, nextArn, last, table0, sns0, steps, invocation, workers>>

Sleep ==
    /\ fetch.pc = "sleep"
    /\ fetch' = [fetch EXCEPT !.pc = "loop", !.sleeps = @ + 1,
                              !.waited = @ + retry_delay]
    /\ UNCHANGED <<table, sns, nextArn, last, table0, sns0, steps, invocation, workers>>

LoopExit ==
    /\ fetch.pc = "loop"
    /\ has_loop(fetch.fn, fetch.variant)
    /\ ~loop_continues(fetch.attempt)
    /\ fetch' = [fetch EXCEPT !.pc = "returned", !.result = "None"]
    /\ UNCHANGED <<table, sns, nextArn, last, table0, sns0, steps, invocation, workers>>

prediction_of_partial(result) ==
    CASE result \in {"prediction", "no_arrival_time"} -> "prediction"
      [] result = "no_data" -> "message"
      [] result = "None" -> "None"

(* What the handler tells apart in the value get_prediction returned: None, *)
(* a dict with the key "message", any other dict.                          *)
prediction_of(result) ==
    CASE result = "prediction" -> "prediction"
      [] result \in {"no_data", "no_arrival_time"} -> "message"
      [] result = "None" -> "None"

RespondPrediction(F) ==
    /\ fetch.pc = "returned"
    /\ fetch.fn = "get_prediction"
    /\ fetch.variant = "application"
    /\ GetPrediction(fetch.user_id, fetch.route, fetch.stop_id,
                     prediction_of(fetch.result), F)
    /\ fetch' = [fetch EXCEPT !.pc = "responded"]
    /\ UNCHANGED <<invocation, workers>>

vehicle_upstream(f) ==
    IF f.exit = "Exception" THEN "exception"
    ELSE IF f.result = "None" THEN "no_deliveries"
    ELSE IF f.upstream.body = "vehicles" THEN f.upstream.vehicles
    ELSE <<>>

RespondDelay ==
    /\ fetch.pc = "returned"
    /\ fetch.fn = "check_vehicle_delay"
    /\ fetch.variant = "application"
    /\ CheckDelay(fetch.route, vehicle_upstream(fetch))
    /\ fetch' = [fetch EXCEPT !.pc = "responded"]
    /\ UNCHANGED <<invocation, workers>>

NextFetch ==
    \/ \E variant \in Variants, user_id \in Users, route \in Routes, stop_id \in Stops :
          StartFetch("get_prediction", variant, user_id, route, stop_id)
    \/ \E variant \in Variants \cup {"services"}, route \in Routes :
          StartFetch("check_vehicle_delay", variant, NoUser, route, Missing)
    \/ \E route \in Routes :
          StartFetch("check_if_route_cancelled", "application", NoUser, route, Missing)
    \/ \E r \in Upstreams(fetch.fn, fetch.variant) : Request(r)
    \/ Sleep
    \/ LoopExit
    \/ \E F \in FaultSets({<<"update_item", 0>>}, MaxFaults) : RespondPrediction(F)
    \/ RespondDelay

SpecFetch == Init /\ [][NextFetch]_vars

(* The retry loop under its scheduling: a synchronous call that runs to    *)
(* its return, so a step that can be taken is taken.                       *)
SpecFetchFair == SpecFetch /\ WF_vars(NextFetch)

(* minutes_away over every arrival time and every clock: a get_prediction  *)
(* of either variant about to make its first request, which the upstream   *)
(* answers with a stop visit.                                              *)
MinutesInit ==
    /\ table = {}
    /\ sns = {}
    /\ nextArn = 1
    /\ last = NoCommand
    /\ table0 = {}
    /\ sns0 = {}
    /\ steps = 0
    /\ fetch \in {[NoFetch EXCEPT !.fn = "get_prediction", !.variant = variant,
                                  !.pc = "loop", !.user_id = "u1", !.route = 1,
                                  !.stop_id = 1, !.upstream = r] :
                     variant \in Variants, r \in VisitResponses(Instants)}
    /\ invocation = NoInvocation
    /\ workers = NoWorkers

MinutesNext == Request(fetch.upstream)

SpecMinutes == MinutesInit /\ [][MinutesNext]_vars

(***************************************************************************)
(* The commands that are to leave the rest of the store and of the topic   *)
(* alone, on a store that two users have subscribed to with two emails:    *)
(* Subscribe and the confirmation build the store, then one of             *)
(* DeleteSubscription, Unsubscribe and GetPrediction is observed.          *)
(***************************************************************************)
FrameUsers == {"u1", "u2"}

FrameRoutes == {1, 2}

FrameBodies == [route : FrameRoutes, stop_id : {1}, email : ValidEmails]

FrameInit ==
    /\ table = {}
    /\ sns = {}
    /\ nextArn = 1
    /\ last = NoCommand
    /\ table0 = {}
    /\ sns0 = {}
    /\ steps = MaxSteps - FrameSteps
    /\ fetch = NoFetch
    /\ invocation = NoInvocation
    /\ workers = NoWorkers

FrameNext ==
    \/ \E user_id \in FrameUsers, body \in FrameBodies :
          Subscribe(user_id, body, {}) /\ UNCHANGED <<fetch, invocation, workers>>
    \/ \E arn \in 1..MaxArn : ConfirmSubscription(arn) /\ UNCHANGED <<fetch, invocation, workers>>
    \/ \E user_id \in FrameUsers, route \in FrameRoutes,
          F \in FaultSets({<<"delete_item", 0>>}, MaxFaults) :
          DeleteSubscription(user_id, route, F) /\ UNCHANGED <<fetch, invocation, workers>>
    \/ \E email \in ValidEmails, order \in Orders(sns), F \in UnsubscribeFaults :
          Unsubscribe(email, order, F) /\ UNCHANGED <<fetch, invocation, workers>>
    \/ \E user_id \in FrameUsers, route \in FrameRoutes, stop_id \in Stops,
          prediction \in Predictions, F \in FaultSets({<<"update_item", 0>>}, MaxFaults) :
          GetPrediction(user_id, route, stop_id, prediction, F)
             /\ UNCHANGED <<fetch, invocation, workers>>

SpecFrame == FrameInit /\ [][FrameNext]_vars

(***************************************************************************)
(* lambda_handler from the event on: decode_jwt, the chain of tests on the *)
(* method and the path, the command, the outer except.                     *)
(***************************************************************************)
Environments == {"dev", "prod"}

(* The Authorization header of the event: a token Cognito signed that is   *)
(* still valid, no header or no "Bearer " prefix, "Bearer " and nothing    *)
(* more, a string that is not a JWT, a token signed with a key the JWKS    *)
(* does not hold, an expired token.                                        *)
Credentials == {"valid", "missing", "empty", "malformed", "unknown_kid", "expired"}

(* What Cognito answers to the request for the JWKS: a status other than   *)
(* 200, the keys, a JSON body without "keys".                              *)
JwksAnswers == {"unavailable", "keys", "no_keys"}

command_of(method, path) ==
    CASE method = "POST" /\ path = "/subscribe" -> "Subscribe"
      [] method = "GET" /\ path = "/status" -> "GetStatus"
      [] method = "GET" /\ path = "/delay" -> "CheckDelay"
      [] method = "GET" /\ path = "/prediction" -> "GetPrediction"
      [] method = "GET" /\ path = "/cancelled" -> "GetCancelledRoutes"
      [] method = "PUT" /\ path = "/email" -> "UpdateEmail"
      [] method = "DELETE" /\ path = "/unsubscribe" -> "Unsubscribe"
      [] method = "DELETE" /\ path = "/subscription" -> "DeleteSubscription"
      [] OTHER -> "none"

(* The method and path of the event: those of the eight commands, a path   *)
(* of a command under another method, a path of no command.                *)
Requests ==
    {<<"POST", "/subscribe">>, <<"GET", "/status">>, <<"GET", "/delay">>,
     <<"GET", "/prediction">>, <<"GET", "/cancelled">>, <<"PUT", "/email">>,
     <<"DELETE", "/unsubscribe">>, <<"DELETE", "/subscription">>,
     <<"GET", "/subscribe">>, <<"POST", "/routes">>}

(* A decode_jwt that requests the keys whatever the cache holds. *)
decode_jwt_without_cache(ENV, credential, jwks, answer) ==
    LET cache == IF answer = "unavailable" THEN "None" ELSE answer
        raises(c, f) == [sub |-> NoUser, error |-> "ValueError", jwks |-> c, fetched |-> f]
    IN  IF ENV = "dev"
        THEN [sub |-> "test-user-id", error |-> "none", jwks |-> jwks, fetched |-> FALSE]
        ELSE IF credential \in {"missing", "empty"} THEN raises(jwks, FALSE)
        ELSE IF answer = "unavailable" THEN raises(cache, TRUE)
        ELSE IF credential = "malformed" THEN raises(cache, TRUE)
        ELSE IF cache = "no_keys" \/ credential = "unknown_kid" THEN raises(cache, TRUE)
        ELSE IF credential = "expired" THEN raises(cache, TRUE)
        ELSE [sub |-> "u1", error |-> "none", jwks |-> cache, fetched |-> TRUE]

(* decode_jwt: the claims, or the ValueError it raises, the cache after    *)
(* it, and whether it requested the keys.  With ENV=dev it returns the     *)
(* claims of a test user.  The keys are requested when the cache is None;  *)
(* an answer other than 200 raises before the cache is assigned.           *)
decode_jwt(ENV, credential, jwks, answer) ==
    LET fetched == jwks = "None"
        cache == IF ~fetched THEN jwks
                 ELSE IF answer = "unavailable" THEN "None"
                 ELSE answer
        raises(c, f) == [sub |-> NoUser, error |-> "ValueError", jwks |-> c, fetched |-> f]
    IN  IF ENV = "dev"
        THEN [sub |-> "test-user-id", error |-> "none", jwks |-> jwks, fetched |-> FALSE]
        ELSE IF credential \in {"missing", "empty"} THEN raises(jwks, FALSE)
        ELSE IF fetched /\ answer = "unavailable" THEN raises(cache, fetched)
        ELSE IF credential = "malformed" THEN raises(cache, fetched)
        ELSE IF cache = "no_keys" \/ credential = "unknown_kid" THEN raises(cache, fetched)
        ELSE IF credential = "expired" THEN raises(cache, fetched)
        ELSE [sub |-> "u1", error |-> "none", jwks |-> cache, fetched |-> fetched]

(* `except Exception as e: return response(500, {"error": str(e)})` *)
except_status == 500

(* The process may be warm: the cache holds what an earlier invocation put *)
(* there.                                                                  *)
InvokeInit ==
    /\ table = {}
    /\ sns = {}
    /\ nextArn = 1
    /\ last = NoCommand
    /\ table0 = {}
    /\ sns0 = {}
    /\ steps = 0
    /\ fetch = NoFetch
    /\ invocation \in {[NoInvocation EXCEPT !.jwks = j] : j \in {"None", "keys", "no_keys"}}
    /\ workers = NoWorkers

Receive(ENV, method, path, credential) ==
    /\ invocation.pc = "idle"
    /\ invocation' = [invocation EXCEPT !.pc = "decode_jwt", !.ENV = ENV,
                                        !.method = method, !.path = path,
                                        !.credential = credential]
    /\ UNCHANGED <<table, sns, nextArn, last, table0, sns0, steps, fetch, workers>>

(* claims = decode_jwt(event); user_id = claims.get("sub") *)
Authenticate(answer) ==
    /\ invocation.pc = "decode_jwt"
    /\ LET d == decode_jwt(invocation.ENV, invocation.credential,
                           invocation.jwks, answer)
           fetches == IF d.fetched THEN invocation.fetches + 1 ELSE invocation.fetches
           asked == IF d.fetched THEN answer ELSE "none"
       IN  invocation' =
             IF d.error # "none"
             THEN [invocation EXCEPT !.pc = "returned", !.jwks = d.jwks,
                                     !.fetches = fetches, !.answer = asked,
                                     !.returned = "response",
                                     !.statusCode = except_status]
             ELSE [invocation EXCEPT !.pc = "route", !.jwks = d.jwks,
                                     !.fetches = fetches, !.answer = asked,
                                     !.user_id = d.sub]
    /\ UNCHANGED <<table, sns, nextArn, last, table0, sns0, steps, fetch, workers>>

(* The if/elif chain on http_method and path; past its last test the       *)
(* function ends without a return statement.                               *)
Route ==
    /\ invocation.pc = "route"
    /\ LET command == command_of(invocation.method, invocation.path)
       IN  invocation' =
             IF command = "none"
             THEN [invocation EXCEPT !.pc = "returned", !.returned = "None"]
             ELSE [invocation EXCEPT !.pc = "command", !.command = command]
    /\ UNCHANGED <<table, sns, nextArn, last, table0, sns0, steps, fetch, workers>>

(* The branch of the command has run and has returned its response.        *)
Returns(command) ==
    /\ invocation.pc = "command"
    /\ invocation.command = command
    /\ last' # NoCommand
    /\ invocation' = [invocation EXCEPT !.pc = "returned", !.ran = TRUE,
                                        !.returned = "response",
                                        !.statusCode = last'.statusCode]
    /\ UNCHANGED <<fetch, workers>>

InvokeNext ==
    \/ \E ENV \in Environments, request \in Requests, credential \in Credentials :
          Receive(ENV, request[1], request[2], credential)
    \/ \E answer \in JwksAnswers : Authenticate(answer)
    \/ Route
    \/ \E body \in SubscribeBodies, F \in SubscribeFaults :
          Subscribe(invocation.user_id, body, F) /\ Returns("Subscribe")
    \/ \E F \in FaultSets({<<"query", 0>>}, MaxFaults) :
          GetStatus(invocation.user_id, F) /\ Returns("GetStatus")
    \/ \E route \in Routes \cup {Missing}, upstream \in VehicleResponses \cup VehicleLists :
          CheckDelay(route, upstream) /\ Returns("CheckDelay")
    \/ \E route \in Routes \cup {Missing}, stop_id \in Stops,
          prediction \in Predictions, F \in FaultSets({<<"update_item", 0>>}, MaxFaults) :
          GetPrediction(invocation.user_id, route, stop_id, prediction, F)
             /\ Returns("GetPrediction")
    \/ \E F \in FaultSets({<<"scan", 0>>}, MaxFaults) :
          \E upstream \in [get_all_unique_routes(table, Ok(F, "scan", 0)) -> RouteOutcomes] :
             GetCancelledRoutes(upstream, F) /\ Returns("GetCancelledRoutes")
    \/ \E new_email \in EmailInputs, F \in UpdateEmailFaults :
          UpdateEmail(invocation.user_id, new_email, F) /\ Returns("UpdateEmail")
    \/ \E email \in ValidEmails \cup {NoEmail}, order \in Orders(sns),
          F \in UnsubscribeFaults : Unsubscribe(email, order, F) /\ Returns("Unsubscribe")
    \/ \E route \in Routes \cup {Missing},
          F \in FaultSets({<<"delete_item", 0>>}, MaxFaults) :
          DeleteSubscription(invocation.user_id, route, F) /\ Returns("DeleteSubscription")

SpecInvoke == InvokeInit /\ [][InvokeNext]_vars

(***************************************************************************)
(* One process handling several invocations.  LambdaFunctionService.jwks   *)
(* is a class attribute: it lives as long as the process, so the next      *)
(* invocation finds what the last one left there.  Nothing else of an      *)
(* invocation stays in the process.  The requests are the one for the      *)
(* status and one that no branch of the handler matches.                   *)
(***************************************************************************)
NextInvocation ==
    /\ invocation.pc = "returned"
    /\ invocation.invocations < MaxInvocations
    /\ invocation' = [NoInvocation EXCEPT !.jwks = invocation.jwks,
                                          !.fetches = invocation.fetches,
                                          !.invocations = invocation.invocations + 1]
    /\ last' = NoCommand
    /\ table0' = {}
    /\ sns0' = {}
    /\ UNCHANGED <<table, sns, nextArn, steps, fetch, workers>>

JwksRequests == {<<"GET", "/status">>, <<"POST", "/routes">>}

JwksNext ==
    \/ \E ENV \in Environments, request \in JwksRequests, credential \in Credentials :
          Receive(ENV, request[1], request[2], credential)
    \/ \E answer \in JwksAnswers : Authenticate(answer)
    \/ Route
    \/ GetStatus(invocation.user_id, {}) /\ Returns("GetStatus")
    \/ NextInvocation

SpecJwks == InvokeInit /\ [][JwksNext]_vars

(***************************************************************************)
(* Concurrent invocations.  Each invocation runs one command of user u1;   *)
(* a step is one call of the command to DynamoDB or to SNS, which the      *)
(* service executes atomically, and the calls of the invocations           *)
(* interleave in any order.  Nothing in the handler locks, and no write    *)
(* carries a ConditionExpression.  The inputs are valid and no call        *)
(* raises.  The user starts with max_subscriptions - 1 subscriptions,      *)
(* made by subscribe_user_to_sns on the empty table and topic.             *)
(***************************************************************************)
RECURSIVE Holding(_)
Holding(k) ==
    IF k = 0 THEN [table |-> {}, sns |-> {}, nextArn |-> 1]
    ELSE LET h == Holding(k - 1)
             r == subscribe_user_to_sns(h.table, h.sns, h.nextArn,
                                        "a@b.com", "u1", k, 1, {})
         IN  [table |-> r.table, sns |-> r.sns, nextArn |-> r.nextArn]

ConcurrentInit ==
    /\ table = Holding(max_subscriptions - 1).table
    /\ sns = Holding(max_subscriptions - 1).sns
    /\ nextArn = Holding(max_subscriptions - 1).nextArn
    /\ last = NoCommand
    /\ table0 = {}
    /\ sns0 = {}
    /\ steps = 0
    /\ fetch = NoFetch
    /\ invocation = NoInvocation
    /\ workers = NoWorkers

first_call(op) ==
    CASE op = "Subscribe" -> "limit_query"
      [] op = "UpdateEmail" -> "query"
      [] op = "DeleteSubscription" -> "delete_item"
      [] op = "GetPrediction" -> "log_prediction"

(* The handler has authenticated the event and has entered the branch of   *)
(* the command; its validation has passed.                                 *)
Start(w, op, route, email) ==
    /\ workers[w].pc = "idle"
    /\ workers' = [workers EXCEPT ![w] =
                     [NoWorker EXCEPT !.op = op, !.pc = first_call(op),
                                      !.user_id = "u1", !.route = route,
                                      !.stop_id = 1, !.email = email]]
    /\ UNCHANGED <<table, sns, nextArn, last, table0, sns0, steps, fetch, invocation>>

Done(w, statusCode) == [workers[w] EXCEPT !.pc = "done", !.statusCode = statusCode]

(* POST /subscribe: check_subscription_limit *)
LimitQuery(w) ==
    /\ workers[w].pc = "limit_query"
    /\ workers' = [workers EXCEPT ![w] =
                     IF check_subscription_limit(table, workers[w].user_id, TRUE)
                     THEN [@ EXCEPT !.pc = "arn_query"]
                     ELSE Done(w, 400)]
    /\ UNCHANGED <<table, sns, nextArn, last, table0, sns0, steps, fetch, invocation>>

(* subscribe_user_to_sns: get_user_subscription_arn *)
ArnQuery(w) ==
    /\ workers[w].pc = "arn_query"
    /\ LET existing_arn == get_user_subscription_arn(table, workers[w].user_id,
                                                     workers[w].route, TRUE)
       IN  workers' = [workers EXCEPT ![w] =
                         [@ EXCEPT !.arn = existing_arn,
                                   !.pc = IF existing_arn # NoArn THEN "attributes"
                                          ELSE "subscribe"]]
    /\ UNCHANGED <<table, sns, nextArn, last, table0, sns0, steps, fetch, invocation>>

(* subscribe_user_to_sns: get_subscription_attributes of the existing ARN *)
Attributes(w) ==
    /\ workers[w].pc = "attributes"
    /\ LET status == get_subscription_attributes(sns, workers[w].arn, TRUE)
       IN  workers' = [workers EXCEPT ![w] =
                         IF status = "error" THEN Done(w, 500)
                         ELSE IF is_confirmed(status) THEN Done(w, 200)
                         ELSE [@ EXCEPT !.pc = "subscribe"]]
    /\ UNCHANGED <<table, sns, nextArn, last, table0, sns0, steps, fetch, invocation>>

(* subscribe_user_to_sns: sns_client.subscribe *)
SnsSubscribe(w) ==
    /\ workers[w].pc = "subscribe"
    /\ nextArn <= MaxArn
    /\ sns' = sns_subscribe(sns, nextArn, workers[w].email)
    /\ nextArn' = nextArn + 1
    /\ workers' = [workers EXCEPT ![w] = [@ EXCEPT !.arn = nextArn, !.pc = "put_item"]]
    /\ UNCHANGED <<table, last, table0, sns0, steps, fetch, invocation>>

(* subscribe_user_to_sns: save_subscription_record *)
PutItem(w) ==
    /\ workers[w].pc = "put_item"
    /\ table' = save_subscription_record(table, workers[w].user_id, workers[w].route,
                                         workers[w].stop_id, workers[w].email,
                                         workers[w].arn, email_status(workers[w].arn),
                                         TRUE)
    /\ workers' = [workers EXCEPT ![w] = Done(w, 200)]
    /\ UNCHANGED <<sns, nextArn, last, table0, sns0, steps, fetch, invocation>>

(* PUT /email: update_user_email: table.query; the loop runs on the items  *)
(* this query returned.                                                    *)
Query(w) ==
    /\ workers[w].pc = "query"
    /\ LET items == query(table, workers[w].user_id)
       IN  workers' = [workers EXCEPT ![w] =
                         IF items = {} THEN Done(w, 200)
                         ELSE [@ EXCEPT !.items = items, !.pc = "unsubscribe"]]
    /\ UNCHANGED <<table, sns, nextArn, last, table0, sns0, steps, fetch, invocation>>

(* update_user_email: the next item of the loop; sns_client.unsubscribe of *)
(* its old ARN, an unknown ARN being logged and passed over.               *)
SnsUnsubscribe(w) ==
    /\ workers[w].pc = "unsubscribe"
    /\ \E item \in workers[w].items :
          /\ sns' = IF item.subscription_arn # NoArn
                    THEN sns_unsubscribe(sns, item.subscription_arn)
                    ELSE sns
          /\ workers' = [workers EXCEPT ![w] =
                           [@ EXCEPT !.items = @ \ {item}, !.route = item.bus_route,
                                     !.arn = item.subscription_arn,
                                     !.pc = "resubscribe"]]
    /\ UNCHANGED <<table, nextArn, last, table0, sns0, steps, fetch, invocation>>

(* update_user_email: sns_client.subscribe of the new email *)
Resubscribe(w) ==
    /\ workers[w].pc = "resubscribe"
    /\ nextArn <= MaxArn
    /\ sns' = sns_subscribe(sns, nextArn, workers[w].email)
    /\ nextArn' = nextArn + 1
    /\ workers' = [workers EXCEPT ![w] = [@ EXCEPT !.arn = nextArn, !.pc = "update_item"]]
    /\ UNCHANGED <<table, last, table0, sns0, steps, fetch, invocation>>

(* update_user_email: table.update_item on the key of the item *)
UpdateItem(w) ==
    /\ workers[w].pc = "update_item"
    /\ table' = update_item_email(table, workers[w].user_id, workers[w].route,
                                  workers[w].email, workers[w].arn)
    /\ workers' = [workers EXCEPT ![w] =
                     IF workers[w].items = {} THEN Done(w, 200)
                     ELSE [@ EXCEPT !.pc = "unsubscribe"]]
    /\ UNCHANGED <<sns, nextArn, last, table0, sns0, steps, fetch, invocation>>

(* DELETE /subscription: delete_subscription_record *)
DeleteItem(w) ==
    /\ workers[w].pc = "delete_item"
    /\ table' = delete_subscription_record(table, workers[w].user_id, workers[w].route)
    /\ workers' = [workers EXCEPT ![w] = Done(w, 200)]
    /\ UNCHANGED <<sns, nextArn, last, table0, sns0, steps, fetch, invocation>>

(* GET /prediction, the upstream having answered a prediction:             *)
(* log_prediction                                                          *)
LogPrediction(w) ==
    /\ workers[w].pc = "log_prediction"
    /\ table' = log_prediction(table, workers[w].user_id, workers[w].route,
                               workers[w].stop_id, TRUE)
    /\ workers' = [workers EXCEPT ![w] = Done(w, 200)]
    /\ UNCHANGED <<sns, nextArn, last, table0, sns0, steps, fetch, invocation>>

ConcurrentNext ==
    \E w \in Workers :
       \/ \E route \in Routes : Start(w, "Subscribe", route, "a@b.com")
       \/ Start(w, "UpdateEmail", Missing, "c@d.com")
       \/ \E route \in Routes : Start(w, "DeleteSubscription", route, NoEmail)
       \/ \E route \in Routes : Start(w, "GetPrediction", route, NoEmail)
       \/ LimitQuery(w)
       \/ ArnQuery(w)
       \/ Attributes(w)
       \/ SnsSubscribe(w)
       \/ PutItem(w)
       \/ Query(w)
       \/ SnsUnsubscribe(w)
       \/ Resubscribe(w)
       \/ UpdateItem(w)
       \/ DeleteItem(w)
       \/ LogPrediction(w)

SpecConcurrent == ConcurrentInit /\ [][ConcurrentNext]_vars

(***************************************************************************)
(* Properties.                                                             *)
(***************************************************************************)
Count(t, user_id) == Cardinality(get_user_subscriptions(t, user_id, TRUE))

RoutesOf(t, user_id) == {i.bus_route : i \in query(t, user_id)}

(* The record of (user_id, route) that a Subscribe wrote: it holds an ARN. *)
Subscribed(t, user_id, route) ==
    {i \in query(t, user_id) : i.bus_route = route /\ i.subscription_arn # NoArn}

(* C1: a valid Subscribe of a user whose table holds max_subscriptions     *)
(* subscription records answers 403, calls sns.subscribe not once, and     *)
(* leaves the table and the topic as they were.                            *)
C1_LimitRejects ==
    (/\ last.op = "Subscribe"
     /\ last.statusCode # 400
     /\ Count(table0, last.user_id) = max_subscriptions)
    => (/\ last.statusCode = 403
        /\ last.subscribes = 0
        /\ table = table0
        /\ sns = sns0)

(* C2: in every reachable state get_user_subscriptions returns at most     *)
(* max_subscriptions records, for every user.                              *)
C2_CountWithinLimit ==
    \A user_id \in Users : Count(table, user_id) <= max_subscriptions

(* C3: a Subscribe that repeats, argument for argument, the Subscribe      *)
(* that answered 200 just before it leaves the subscription count of the   *)
(* user as the first one left it.                                          *)
C3_RepeatKeepsCount ==
    last.repeat => Count(table, last.user_id) = Count(table0, last.user_id)

C5_ResubscribeReplacesStop ==
    (/\ last.op = "Subscribe"
     /\ last.statusCode # 400
     /\ last.failures = {}
     /\ Count(table0, last.user_id) <= max_subscriptions
     /\ \E i \in Subscribed(table0, last.user_id, last.route) :
           i.stop_id # last.stop_id)
    => (/\ last.statusCode = 200
        /\ \A j \in query(table, last.user_id) :
              j.bus_route = last.route => j.stop_id = last.stop_id)

(* C6: a Subscribe to which get_subscription_attributes reported the       *)
(* stored binding of (user_id, route) as Confirmed answers 200 without a   *)
(* call of sns.subscribe, and leaves the bindings of the topic as they     *)
(* were.                                                                   *)
C6_ConfirmedShortCircuit ==
    (last.op = "Subscribe" /\ last.status = "Confirmed")
    => (/\ last.statusCode = 200
        /\ last.subscribes = 0
        /\ sns = sns0)

C6_Witness ==
    /\ last.op = "Subscribe"
    /\ last.status = "Confirmed"
    /\ \E i \in Subscribed(table0, last.user_id, last.route) :
          \E b \in sns0 : b.arn = i.subscription_arn /\ b.status = "Confirmed"

C8_UpdateEmailRebindsAll ==
    (last.op = "UpdateEmail" /\ last.statusCode = 200)
    => /\ \A i \in get_user_subscriptions(table, last.user_id, TRUE) :
             /\ i.email = last.email
             /\ i.email_status \in {"pending", "pending_confirmation"}
             /\ \E b \in sns \ sns0 :
                   b.arn = i.subscription_arn /\ b.endpoint = last.email
       /\ \A j \in get_user_subscriptions(table0, last.user_id, TRUE) :
             j.subscription_arn # NoArn
             => \/ j.bus_route \in last.unbind_failed
                \/ \A b \in sns : b.arn # j.subscription_arn

(* C9: an UpdateEmail in which the unsubscribe of an old ARN raised, and   *)
(* in which no call to the table raised, answers 200, having asked a new   *)
(* binding and a table update for every item of the user, the item of the  *)
(* failed unsubscribe included; every item then holds the new email.       *)
C9_UnbindFailureContinues ==
    (/\ last.op = "UpdateEmail"
     /\ last.unbind_failed # {}
     /\ last.failures \subseteq ({"unsubscribe", "subscribe"} \X Routes))
    => (/\ last.statusCode = 200
        /\ RoutesOf(table0, last.user_id) \subseteq last.rebound
        /\ RoutesOf(table0, last.user_id) \subseteq last.rewritten
        /\ \A i \in query(table, last.user_id) : i.email = last.email)

C9_Witness ==
    /\ last.op = "UpdateEmail"
    /\ last.statusCode = 200
    /\ \E r \in last.unbind_failed :
          \E r2 \in last.rewritten \cap last.rebound : r < r2
    /\ \A i \in query(table, last.user_id) : i.email = last.email

(* C10: in an UpdateEmail whose query answered, a subscribe or an          *)
(* update_item that raised for one item leaves no other item of the user   *)
(* without the new email.                                                  *)
C10_FanOutSurvivesFailure ==
    (/\ last.op = "UpdateEmail"
     /\ last.statusCode # 400
     /\ last.failures \cap ({"subscribe", "update_item"} \X Routes) # {})
    => \A j \in query(table0, last.user_id) :
          <<"update_item", j.bus_route>> \notin last.failures
          /\ <<"subscribe", j.bus_route>> \notin last.failures
          => \E i \in query(table, last.user_id) :
                i.bus_route = j.bus_route /\ i.email = last.email

(* C11: in the lifecycle scenario (Subscribe, UpdateEmail, a confirmation,  *)
(* an Unsubscribe that answered 200, GetStatus) the topic holds no binding *)
(* any more and GetStatus returns the empty list.                          *)
C11_StatusEmptyAfterUnsubscribe ==
    (LifecyclePhase = LifecycleSteps /\ last.op = "GetStatus")
    => (sns = {} /\ last.subscriptions = {})

(* C12: an Unsubscribe during which list_subscriptions_by_topic or         *)
(* sns.unsubscribe raised answers 500, and an Unsubscribe answers 404 only *)
(* when the topic held no confirmed binding.                               *)
C12_NotFoundDistinctFromFailure ==
    (last.op = "Unsubscribe" /\ last.statusCode # 400)
    => (/\ last.failures # {} => last.statusCode = 500
        /\ last.statusCode = 404
              => \A b \in sns0 : b.status # "Confirmed")

(* C13: an Unsubscribe, none of whose calls raised, issued while the topic *)
(* holds a binding of the email that is pending confirmation answers 200   *)
(* and removes that binding.                                               *)
C13_UnsubscribeFromPending ==
    (/\ last.op = "Unsubscribe"
     /\ last.failures = {}
     /\ \E b \in sns0 : b.endpoint = last.email /\ b.status = "PendingConfirmation")
    => (/\ last.statusCode = 200
        /\ \A b \in sns : b.endpoint # last.email)

(* C14: a DeleteSubscription with a route answers 404 when the table holds *)
(* no record of (user_id, route), and answers 200 only when it held one    *)
(* and the record is gone.                                                 *)
C14_DeleteMissingIsNotFound ==
    (last.op = "DeleteSubscription" /\ last.statusCode # 400)
    => (/\ Subscribed(table0, last.user_id, last.route) = {}
              => last.statusCode = 404
        /\ last.statusCode = 200
              => /\ \E i \in query(table0, last.user_id) : i.bus_route = last.route
                 /\ \A i \in query(table, last.user_id) : i.bus_route # last.route)

(* C15: a GetPrediction whose upstream answered with an empty list of stop *)
(* visits, and one whose first stop visit has no expected arrival time,    *)
(* are both answered 404; neither is answered 200.                         *)
C15_NoDataCasesBothNotFound ==
    (/\ fetch.pc = "responded"
     /\ last.op = "GetPrediction"
     /\ fetch.upstream.transport = "ok"
     /\ fetch.upstream.body \in {"no_visits", "empty_visits", "no_journey", "no_arrival_time"})
    => last.statusCode = 404

C15_Witness ==
    /\ fetch.pc = "responded"
    /\ last.op = "GetPrediction"
    /\ fetch.upstream.status = 200
    /\ fetch.upstream.body = "no_arrival_time"
    /\ fetch.result = "no_arrival_time"
    /\ last.statusCode = 404

(* C16: a GetPrediction all of whose max_retries upstream attempts failed, *)
(* so that get_prediction returned None, is answered 404 and not 500.      *)
C16_ExhaustedRetriesDegrade ==
    (/\ fetch.pc = "responded"
     /\ last.op = "GetPrediction"
     /\ fetch.attempt = max_retries
     /\ fetch.result = "None")
    => last.statusCode = 404

(* C17: the minutes_away of a prediction is the floor of (arrival - now)   *)
(* in seconds over 60, or 0 where that is below 0: never negative, and 0   *)
(* for an arrival at or before now.                                        *)
floor_minutes(d) ==
    CHOOSE q \in -(MaxTime + 60)..(MaxTime + 60) : 60 * q <= d /\ d < 60 * (q + 1)

C17_MinutesAwayFloorClamped ==
    (fetch.pc = "returned" /\ fetch.result = "prediction")
    => LET d == fromisoformat(fetch.upstream.arrival) - fetch.upstream.now
       IN  /\ fetch.minutes_away >= 0
           /\ fetch.minutes_away = IF floor_minutes(d) > 0 THEN floor_minutes(d) ELSE 0
           /\ d <= 0 => fetch.minutes_away = 0

(* C18: a fetch of the application that returned after a timeout, a        *)
(* connection error or a non-2xx response had made max_retries requests.   *)
transport_failure(r) ==
    \/ r.transport \in TransportFailures
    \/ r.transport = "ok" /\ (r.status < 200 \/ r.status >= 300)

C18_RetryOnTransportFailure ==
    (/\ fetch.variant = "application"
     /\ fetch.pc = "returned"
     /\ transport_failure(fetch.upstream))
    => fetch.requests = max_retries

(* C19: get_prediction makes at most max_retries requests and at most      *)
(* max_retries sleeps, waits at most max_retries * retry_delay in all,     *)
(* returns None once max_retries attempts have failed, and every call of   *)
(* it returns.                                                             *)
C19_GetPredictionTerminates ==
    /\ [](fetch.fn = "get_prediction"
            => /\ fetch.requests <= max_retries
               /\ fetch.sleeps <= max_retries
               /\ fetch.waited <= max_retries * retry_delay
               /\ (fetch.pc \in {"returned", "responded"} /\ fetch.attempt = max_retries)
                     => fetch.result = "None")
    /\ (fetch.fn = "get_prediction") ~> (fetch.pc \in {"returned", "responded"})

C19_Witness ==
    /\ fetch.fn = "get_prediction"
    /\ fetch.variant = "application"
    /\ fetch.pc = "returned"
    /\ fetch.requests = max_retries
    /\ fetch.sleeps = max_retries
    /\ fetch.waited = max_retries * retry_delay
    /\ fetch.result = "None"

(* C20: after a 200 response whose JSON lacks Siri, ServiceDelivery or the *)
(* delivery list, or whose delivery list is empty, the fetch has returned  *)
(* after that one request, no exception has escaped it, and what it        *)
(* returned is its no-data result.                                         *)
C20_MissingNestingIsEmptyResult ==
    (/\ fetch.upstream.transport = "ok"
     /\ fetch.upstream.status = 200
     /\ fetch.upstream.body \in NestingBodies)
    => /\ fetch.pc \in {"returned", "responded"}
       /\ fetch.result # "raised"
       /\ fetch.result \in {"no_data", "None"}

(* C24: after GetCancelledRoutes the cancelled and the active list share   *)
(* no route, together they are the distinct routes of the table's records, *)
(* and the two counts add up to the number of those routes.                *)
C24_CancelledActivePartition ==
    last.op = "GetCancelledRoutes"
    => LET known == {i.bus_route : i \in table0}
       IN  /\ last.cancelled \cap last.active = {}
           /\ last.cancelled \cup last.active = known
           /\ Cardinality(last.cancelled) + Cardinality(last.active)
                 = Cardinality(known)

(* C25: GetCancelledRoutes answers 404 when the table holds no record, and *)
(* answers 200 only when the table holds a record of at least one route.   *)
C25_CancelledEmptyStoreIsNotFound ==
    last.op = "GetCancelledRoutes"
    => /\ table0 = {} => last.statusCode = 404
       /\ last.statusCode = 200 => table0 # {}

(* C27: a Subscribe whose put_item raised answers 500, and a Subscribe     *)
(* that answers 200 leaves a record of (user_id, route) in the table.      *)
C27_SubscribeStoreFailureSurfaces ==
    last.op = "Subscribe"
    => /\ <<"put_item", 0>> \in last.failures => last.statusCode = 500
       /\ last.statusCode = 200
             => \E i \in table : /\ i.user_id = last.user_id
                                 /\ i.bus_route = last.route

(* C30: the email_status of every record of the table is one of pending,   *)
(* confirmed and none.                                                     *)
C30_ChannelStatusEnum ==
    \A i \in table : i.email_status \in {"pending", "confirmed", "none"}

C22_NotifiesIffStrictlyOverThreshold ==
    (/\ fetch.fn = "check_vehicle_delay"
     /\ fetch.variant \in Variants
     /\ fetch.pc \in {"returned", "responded"}
     /\ fetch.exit = "return"
     /\ fetch.upstream.body = "vehicles")
    => LET v == fetch.upstream.vehicles
           over(n) ==
               IF fetch.variant = "application"
               THEN v[n].expected /\ v[n].minutes > delay_threshold_minutes
               ELSE /\ v[n].MonitoredVehicleJourney.ProgressStatus
                          \in {"delayed", "Delayed"}
                    /\ v[n].MonitoredVehicleJourney.Delay
                          > vehicle_delay_threshold * 60
       IN  fetch.notifications > 0 <=> \E n \in 1..Len(v) : over(n)

(* C23 as claimed: check_if_route_cancelled returns True exactly when the  *)
(* answer to its request holds no vehicle activity, and False exactly when *)
(* it holds at least one.                                                  *)
C23_CancelledIffNoActivity ==
    (fetch.fn = "check_if_route_cancelled" /\ fetch.pc = "returned")
    => LET r == fetch.upstream
           activities == IF r.transport = "ok"
                            /\ r.body \in {"vehicles", "second_delivery"}
                         THEN Len(r.vehicles) ELSE 0
       IN  /\ fetch.result = "True" <=> activities = 0
           /\ fetch.result = "False" <=> activities > 0

(* C23: check_if_route_cancelled returns True exactly when its request was *)
(* answered with a JSON body in which no delivery holds a non-empty        *)
(* VehicleActivity list, and False otherwise: when a delivery holds an     *)
(* activity, or when the request or the decoding of its answer raised.     *)
C23_CancelledIffAnsweredWithoutActivity ==
    (fetch.fn = "check_if_route_cancelled" /\ fetch.pc = "returned")
    => LET r == fetch.upstream
           answered == r.transport = "ok" /\ r.body # "not_json"
           activities == IF r.body \in {"vehicles", "second_delivery"}
                         THEN Len(r.vehicles) ELSE 0
       IN  /\ fetch.result \in {"True", "False"}
           /\ fetch.result = "True" <=> (answered /\ activities = 0)
           /\ fetch.result = "False" <=> (~answered \/ activities > 0)

C23_Witness ==
    /\ fetch.fn = "check_if_route_cancelled"
    /\ fetch.pc = "returned"
    /\ fetch.upstream.status = 200
    /\ fetch.upstream.body = "second_delivery"
    /\ fetch.upstream.vehicles = <<>>
    /\ fetch.result = "True"

(* C28: an invocation outside the dev environment whose bearer credential  *)
(* is missing, empty, malformed or expired is answered 401, and no branch  *)
(* of a command has run.                                                   *)
C28_BadCredentialIsUnauthorized ==
    (/\ invocation.pc = "returned"
     /\ invocation.ENV = "prod"
     /\ invocation.credential \in {"missing", "empty", "malformed", "expired"})
    => /\ invocation.returned = "response"
       /\ invocation.statusCode = 401
       /\ ~invocation.ran

(* C29: an invocation that has returned has returned a response with a     *)
(* status code, whatever its method and path.                              *)
C29_AlwaysStructuredResponse ==
    invocation.pc = "returned"
    => /\ invocation.returned = "response"
       /\ invocation.statusCode \in {200, 400, 401, 403, 404, 405, 500}

(* C37: a Subscribe whose query of the user's subscriptions raised during  *)
(* the limit check has not called sns.subscribe and has left the table and *)
(* the topic as they were.                                                 *)
C37_LimitFailsClosed ==
    (last.op = "Subscribe" /\ <<"limit_query", 0>> \in last.failures)
    => /\ last.subscribes = 0
       /\ table = table0
       /\ sns = sns0

C34_GetPredictionReadOnly ==
    last.op = "GetPrediction"
    => \A user_id \in FrameUsers :
          get_user_subscriptions(table, user_id, TRUE)
             = get_user_subscriptions(table0, user_id, TRUE)

(* C35: an Unsubscribe leaves every binding of another endpoint than the   *)
(* given email on the topic.                                               *)
C35_UnsubscribeOnlyOwnEndpoint ==
    last.op = "Unsubscribe"
    => \A b \in sns0 : b.endpoint # last.email => b \in sns

(* C36: an Unsubscribe that answers 404 has removed no binding, and one    *)
(* that removed a binding answers 200.                                     *)
C36_UnsubscribeResultMatchesEffect ==
    last.op = "Unsubscribe"
    => /\ last.statusCode = 404 => sns = sns0
       /\ sns # sns0 => last.statusCode = 200

C31_CacheInitializeOnce ==
    [][/\ invocation.jwks # "None"
          => /\ invocation'.jwks = invocation.jwks
             /\ invocation'.fetches = invocation.fetches
       /\ (invocation'.fetches # invocation.fetches /\ invocation'.answer = "unavailable")
          => invocation'.jwks = "None"
       /\ invocation'.fetches # invocation.fetches
          => /\ invocation'.fetches = invocation.fetches + 1
             /\ invocation'.answer # "unavailable" => invocation'.jwks = invocation'.answer
       /\ (/\ invocation.pc = "decode_jwt"
           /\ invocation.jwks = "None"
           /\ invocation.ENV = "prod"
           /\ invocation.credential \notin {"missing", "empty"})
          => invocation'.fetches = invocation.fetches + 1]_vars

(* The third invocation of a process whose first request for the keys      *)
(* failed and whose second succeeded: it has passed decode_jwt with a      *)
(* token and has made no request.                                          *)
C31_Witness ==
    /\ invocation.invocations = 3
    /\ invocation.fetches = 2
    /\ invocation.jwks = "keys"
    /\ invocation.ENV = "prod"
    /\ invocation.credential = "valid"
    /\ invocation.pc = "returned"
    /\ invocation.answer = "none"

Complete(item) ==
    /\ item.stop_id # Missing
    /\ item.email # NoEmail
    /\ item.subscription_arn # NoArn
    /\ item.email_status # NoStatus

(* C32: under every interleaving of concurrent Subscribe, UpdateEmail,     *)
(* DeleteSubscription and GetPrediction invocations, every record of the   *)
(* store holds route, stop_id, email, binding reference and status, and    *)
(* the record of a key that a DeleteSubscription removed is not there      *)
(* again when no Subscribe ran for the key.                                *)
C32_RecordsCompleteUnderInterleaving ==
    /\ \A item \in table : Complete(item)
    /\ \A w \in Workers :
          (/\ workers[w].op = "DeleteSubscription"
           /\ workers[w].pc = "done"
           /\ \A v \in Workers \ {w} :
                 workers[v].op \in {"none", "UpdateEmail", "GetPrediction"})
          => ~\E item \in table : /\ item.user_id = workers[w].user_id
                                  /\ item.bus_route = workers[w].route

(* C33: when the invocations that run are Subscribe commands of one user   *)
(* for different routes and the user held max_subscriptions - 1            *)
(* subscriptions, the user never holds more than max_subscriptions.        *)
C33_ConcurrentSubscribesKeepLimit ==
    (/\ \A w \in Workers : workers[w].op \in {"none", "Subscribe"}
     /\ \A w, v \in Workers :
           (w # v /\ workers[w].op = "Subscribe" /\ workers[v].op = "Subscribe")
           => workers[w].route # workers[v].route)
    => Cardinality(get_user_subscriptions(table, "u1", TRUE)) <= max_subscriptions

====
